---- MODULE Spec2Model ----
(***************************************************************************)
(* Document authenticity analysis engine of the nurse marketplace.         *)
(*                                                                         *)
(*   generic pipeline      src/src/ai/forgeryDetection.ts  analyzeDocument *)
(*   specialized pipeline  src/unnamed/part_007      analyzeIndianDocument *)
(*                                                                         *)
(* Numbers.  Every real quantity of the code (a score, a weight product,   *)
(* a confidence) is a fixed-point integer counted in units of 10^-7, so    *)
(* 1.0 is One = 10000000 and 0.75 is 7500000.  Decimal literals of the     *)
(* code are exact in this unit, and every input of the model is a multiple *)
(* of 10^-3, so every product with a two-decimal literal is exact too.     *)
(* The IEEE value NaN is the sentinel NaN; every arithmetic operator and   *)
(* every comparison below treats it as JavaScript does (arithmetic with    *)
(* NaN is NaN, every comparison with NaN is false).                        *)
(*                                                                         *)
(* The nurse upload flow that calls the specialized pipeline and stores    *)
(* its record (src/unnamed/part_001 handleUpload, src/unnamed/part_006     *)
(* DocumentDB) is the specification SpecUpload; SpecRepeat invokes a       *)
(* pipeline twice on one image.                                            *)
(*                                                                         *)
(* Images.  An image is its geometry (width, height), from which the       *)
(* loops of the extractors derive their sample sets exactly as the code    *)
(* does, plus the value of the dispersion statistic each extractor         *)
(* computes from the pixels when its sample set is not empty.              *)
(***************************************************************************)
EXTENDS Integers, Sequences, FiniteSets, TLC

VARIABLES
    pc,      \* "idle" before a pipeline has run, "generic" / "indian" after
    img,     \* the decoded, downscaled image handed to the extractors
    clock,   \* the wall clock read by new Date()
    loc,     \* the local variables of the pipeline at its return statement
    ret,     \* the record the pipeline returned (None before it returns)
    prev,    \* the record an earlier invocation on the same image returned
    uploads, \* the uploads of the nurses: position and locals of each handler
    documents \* the rows of the nurse_documents table, by id

vars == <<pc, img, clock, loc, ret, prev, uploads, documents>>

None == [result |-> "none"]

-----------------------------------------------------------------------------
(* Fixed-point numbers and IEEE NaN                                        *)

One == 10000000
Milli == 10000
NaN == 0 - 2000000000

IsNaN(x) == x = NaN

\* a + b
Add(a, b) == IF IsNaN(a) \/ IsNaN(b) THEN NaN ELSE a + b

\* a - b
Sub(a, b) == IF IsNaN(a) \/ IsNaN(b) THEN NaN ELSE a - b

\* a * (k / 100): the product of a with the two-decimal literal k/100
Times(a, k) ==
    IF IsNaN(a) THEN NaN
    ELSE IF a % 100 = 0 THEN (a \div 100) * k
    ELSE (a * k) \div 100

\* a / n for a small positive integer n
Over(a, n) == IF IsNaN(a) THEN NaN ELSE a \div n

\* a < b and a >= b; false when either side is NaN
Lt(a, b) == ~IsNaN(a) /\ ~IsNaN(b) /\ a < b
Ge(a, b) == ~IsNaN(a) /\ ~IsNaN(b) /\ a >= b

\* Math.min and Math.max return NaN when an argument is NaN
MathMin(a, b) == IF IsNaN(a) \/ IsNaN(b) THEN NaN ELSE IF a < b THEN a ELSE b
MathMax(a, b) == IF IsNaN(a) \/ IsNaN(b) THEN NaN ELSE IF a > b THEN a ELSE b

\* Math.max(0, Math.min(1, x))
Clamp01(x) == MathMax(0, MathMin(One, x))

\* Math.round(x * 100) / 100: to the nearest hundredth, halves upwards
Round2(x) == IF IsNaN(x) THEN NaN ELSE ((x + 50000) \div 100000) * 100000

\* the sequence <<msg>> when the if statement pushes, <<>> otherwise
PushIf(cond, msg) == IF cond THEN <<msg>> ELSE <<>>

-----------------------------------------------------------------------------
(* Loader: loadImage and getImageData                                      *)

\* the scale of one axis only, applied to both
scaledSize_ByWidth(size, width, height, maxDim) ==
    IF width <= maxDim /\ height <= maxDim THEN size
    ELSE (size * maxDim) \div width

\* Math.floor(size * Math.min(maxDim / width, maxDim / height, 1))
scaledSize(size, width, height, maxDim) ==
    IF width <= maxDim /\ height <= maxDim THEN size
    ELSE IF width >= height THEN (size * maxDim) \div width
    ELSE (size * maxDim) \div height

\* the pixel buffer drawn on the canvas: the image at the canvas size
getImageData(i, maxDim) ==
    [i EXCEPT !.width = scaledSize(i.width, i.width, i.height, maxDim),
              !.height = scaledSize(i.height, i.width, i.height, maxDim)]

\* a loader that resolves with whatever the image element holds
loadImageRejects_Never(i) == FALSE

\* loadImage: img.onerror = reject, fired when the data cannot be decoded
loadImageRejects(i) == ~i.decodable

\* a context that hands out an empty buffer for an empty canvas
getImageDataThrows_Never(i, maxDim) == FALSE

\* ctx.getImageData(0, 0, canvas.width, canvas.height) throws IndexSizeError
\* when the canvas has a zero width or height
getImageDataThrows(i, maxDim) ==
    \/ getImageData(i, maxDim).width = 0
    \/ getImageData(i, maxDim).height = 0

\* const img = await loadImage(fileData); const {...} = getImageData(img);
\* either failure rejects the promise of the pipeline before an extractor runs
loaderRejects(i, maxDim) == loadImageRejects(i) \/ getImageDataThrows(i, maxDim)

\* what the caller observes when the promise of a pipeline rejects
Rejected == [loc |-> [stage |-> "rejected"], ret |-> [result |-> "rejected"]]

-----------------------------------------------------------------------------
(* Geometry of the extractor loops                                         *)

\* for (let y = 1; y < height - 1; y++): the indices that have both neighbours
Interior(n) == {y \in 0..n : 1 <= y /\ y < n - 1}

\* for (let by = 0; by < height - blockSize; by += blockSize)
BlockOrigins(n, blockSize) == {by \in 0..n : by % blockSize = 0 /\ by < n - blockSize}

\* the number of iterations of the two nested block loops
BlockCount(width, height, blockSize) ==
    Cardinality(BlockOrigins(height, blockSize)) * Cardinality(BlockOrigins(width, blockSize))

\* a statistic computed by reduce(...) / samples.length: 0 / 0 when no sample
Statistic(samples, value) == IF samples = 0 THEN NaN ELSE value

-----------------------------------------------------------------------------
(* The six extractors of the generic pipeline                              *)

\* FEATURE 1: 1 - (stdDev / (mean + 1)) / 3 over the Sobel magnitudes
analyzeEdgeConsistency(i) ==
    LET edgesLength == Cardinality(Interior(i.height)) * Cardinality(Interior(i.width))
        coefficient == Statistic(edgesLength, i.edgeCoefficient)
    IN  Clamp01(Sub(One, Over(coefficient, 3)))

\* FEATURE 2: 1 - (sqrt(varOfVar) / (meanVar + 1)) / 5 over 16x16 blocks
analyzeTexture(i) ==
    LET blockSize == 16
        blockVariancesLength == BlockCount(i.width, i.height, blockSize)
    IN  IF blockVariancesLength = 0 THEN 8500000
        ELSE Clamp01(Sub(One, Over(i.textureConsistency, 5)))

\* FEATURE 3: 1 - |avgBoundary / avgInterior - 1| * 2 over horizontal differences
analyzeCompressionArtifacts(i) ==
    LET rows == Cardinality(Interior(i.height))
        boundaryCount == rows * Cardinality({x \in Interior(i.width) : x % 8 = 0})
        interiorCount == rows * Cardinality({x \in Interior(i.width) : x % 8 # 0})
        avgBoundary == IF boundaryCount > 0 THEN i.boundaryDiff ELSE 0
        avgInterior == IF interiorCount > 0 THEN i.interiorDiff ELSE 0
        ratio == IF avgInterior > 0 THEN avgBoundary * (One \div avgInterior) ELSE One
        distance == IF ratio >= One THEN ratio - One ELSE One - ratio
    IN  Clamp01(Sub(One, distance * 2))

\* FEATURE 4: 1 - 3 * stdDev of the per-block R/G correlations, 32x32 blocks;
\* a block contributes a correlation only when both channels vary in it
analyzeColorConsistency(i) ==
    LET blockSize == 32
        correlationsLength ==
            IF i.colorVaries THEN BlockCount(i.width, i.height, blockSize) ELSE 0
    IN  IF correlationsLength = 0 THEN 8500000
        ELSE Clamp01(Sub(One, i.correlationStd * 3))

\* FEATURE 5: 1 - sqrt(varStd) / (meanStd + 1) over 32x32 blocks of residuals
analyzeNoisePattern(i) ==
    LET blockSize == 32
        effectiveWidth == i.width - 2
        effectiveHeight == i.height - 2
        blockNoiseStdsLength == BlockCount(effectiveWidth, effectiveHeight, blockSize)
    IN  IF blockNoiseStdsLength = 0 THEN 8500000
        ELSE Clamp01(Sub(One, i.noiseVariation))

\* one iteration of the row scan: i.darkRows are the rows whose profile is
\* below 0.9 * mean, st holds inTextLine, lineStart and textLines
ScanRow(st, y, darkRows) ==
    IF y \in darkRows /\ ~st.inTextLine
    THEN [st EXCEPT !.inTextLine = TRUE, !.lineStart = y]
    ELSE IF y \notin darkRows /\ st.inTextLine
    THEN [st EXCEPT !.inTextLine = FALSE,
                    !.textLines = Append(st.textLines, y - st.lineStart)]
    ELSE st

\* for (let y = from; y < to; y++), run as two half loops one after the
\* other; testing the state after the first half makes TLC compute it before
\* it starts the second half
RECURSIVE ScanRows(_, _, _, _)
ScanRows(st, from, to, darkRows) ==
    IF from >= to THEN st
    ELSE IF to = from + 1 THEN ScanRow(st, from, darkRows)
    ELSE LET mid == (from + to) \div 2
             half == ScanRows(st, from, mid, darkRows)
         IN  IF half.inTextLine \in BOOLEAN
             THEN ScanRows(half, mid, to, darkRows)
             ELSE half

\* the heights pushed onto textLines by the row scan of analyzeAlignment
textLinesOf(i) ==
    LET start == [inTextLine |-> FALSE, lineStart |-> 0, textLines |-> <<>>]
    IN  ScanRows(start, 0, i.height, i.darkRows).textLines

\* FEATURE 6: 1 - sqrt(variance) / (meanHeight + 1) over the band heights
analyzeAlignment(i) ==
    LET textLines == textLinesOf(i)
    IN  IF Len(textLines) < 3 THEN 8500000
        ELSE Clamp01(Sub(One, i.lineHeightCv))

\* Simulated OCR output, chosen from the aspect ratio width / height
generateOCRSimulation(width, height) ==
    IF height = 0 THEN "standard"
    ELSE IF 10 * width > 13 * height THEN "landscape"
    ELSE IF 10 * width < 8 * height THEN "portrait"
    ELSE "standard"

-----------------------------------------------------------------------------
(* analyzeDocument: weights, anomaly tiers and the three-stage decision    *)
(* s is the record of the six scores returned by the extractors.           *)

\* the weights before edge and texture were raised, edge left at its old value
weights_OldEdge ==
    [edge |-> 20, texture |-> 22, compression |-> 15,
     color |-> 15, noise |-> 12, alignment |-> 11]

weights ==
    [edge |-> 25, texture |-> 22, compression |-> 15,
     color |-> 15, noise |-> 12, alignment |-> 11]

\* Calculate weighted confidence score
weightedConfidence(s) ==
    Add(Times(s.edgeScore, weights.edge),
    Add(Times(s.textureScore, weights.texture),
    Add(Times(s.compressionScore, weights.compression),
    Add(Times(s.colorScore, weights.color),
    Add(Times(s.noiseScore, weights.noise),
        Times(s.alignmentScore, weights.alignment))))))

\* the conditions of the nine if statements that raise anomalies

edgeCritical(s) == Lt(s.edgeScore, 4500000)
textureCritical(s) == Lt(s.textureScore, 5000000)
compressionCritical(s) == Lt(s.compressionScore, 4000000)
\* an if in the place of the else if: the warning without its lower bound
edgeWarning_NoFloor(s) == Lt(s.edgeScore, 6000000)

edgeWarning(s) == Ge(s.edgeScore, 4500000) /\ Lt(s.edgeScore, 6000000)

textureWarning(s) == Ge(s.textureScore, 5000000) /\ Lt(s.textureScore, 6500000)
compressionWarning(s) == Ge(s.compressionScore, 4000000) /\ Lt(s.compressionScore, 5500000)
colorWarning(s) == Lt(s.colorScore, 6000000)
noiseWarning(s) == Lt(s.noiseScore, 5500000)
alignmentWarning(s) == Lt(s.alignmentScore, 5500000)

\* the pushes onto criticalAnomalies, in program order
criticalAnomaliesOf(s) ==
    PushIf(edgeCritical(s), "CRITICAL: Severe edge pattern inconsistency")
    \o PushIf(textureCritical(s), "CRITICAL: Major texture inconsistency across document regions")
    \o PushIf(compressionCritical(s), "CRITICAL: Multiple compression artifacts")

\* the pushes onto warningAnomalies, in program order
warningAnomaliesOf(s) ==
    PushIf(edgeWarning(s), "Edge patterns show minor inconsistencies")
    \o PushIf(textureWarning(s), "Texture shows some irregularities")
    \o PushIf(compressionWarning(s), "Some compression artifacts present")
    \o PushIf(colorWarning(s), "Color channel inconsistency - possible image splicing")
    \o PushIf(noiseWarning(s), "Non-uniform noise patterns detected")
    \o PushIf(alignmentWarning(s), "Irregular text line alignment or spacing")

\* the pushes onto anomalies made feature by feature instead of tier by tier
anomaliesOf_ByFeature(s) ==
    PushIf(edgeCritical(s), "Severe edge pattern inconsistency detected")
    \o PushIf(edgeWarning(s), "Minor edge pattern inconsistencies")
    \o PushIf(textureCritical(s), "Major texture inconsistency")
    \o PushIf(textureWarning(s), "Texture irregularities detected")
    \o PushIf(compressionCritical(s), "Multiple compression artifacts")
    \o PushIf(compressionWarning(s), "Compression artifacts detected")
    \o PushIf(colorWarning(s), "Color channel inconsistency")
    \o PushIf(noiseWarning(s), "Noise pattern irregularity")
    \o PushIf(alignmentWarning(s), "Alignment irregularity")

\* the pushes onto anomalies, in program order
anomaliesOf(s) ==
    PushIf(edgeCritical(s), "Severe edge pattern inconsistency detected")
    \o PushIf(textureCritical(s), "Major texture inconsistency")
    \o PushIf(compressionCritical(s), "Multiple compression artifacts")
    \o PushIf(edgeWarning(s), "Minor edge pattern inconsistencies")
    \o PushIf(textureWarning(s), "Texture irregularities detected")
    \o PushIf(compressionWarning(s), "Compression artifacts detected")
    \o PushIf(colorWarning(s), "Color channel inconsistency")
    \o PushIf(noiseWarning(s), "Noise pattern irregularity")
    \o PushIf(alignmentWarning(s), "Alignment irregularity")

\* the gate taken only when all three critical anomalies are present
stage1Gate_AllThree(criticalAnomalies) == Len(criticalAnomalies) >= 3

\* Stage 1: if (criticalAnomalies.length >= 2)
stage1Gate(criticalAnomalies) == Len(criticalAnomalies) >= 2

\* the gated confidence on a higher base
stage1Confidence_HigherBase(confidenceScore) == Add(2500000, Times(confidenceScore, 35))

\* the gated confidence with a larger share of the raw confidence
stage1Confidence_LargerShare(confidenceScore) == Add(1500000, Times(confidenceScore, 45))

\* Stage 1: confidenceScore: 0.15 + (confidenceScore * 0.35)
stage1Confidence(confidenceScore) == Add(1500000, Times(confidenceScore, 35))

\* Stage 2: adjust confidence based on anomaly count
stage2Adjust(confidenceScore, warningAnomalies) ==
    IF Len(warningAnomalies) >= 3 THEN Times(confidenceScore, 85)
    ELSE IF Len(warningAnomalies) >= 1 THEN Times(confidenceScore, 95)
    ELSE confidenceScore

\* the classification taken on the confidence as it will be reported
stage3Classify_OnRounded(adjustedConfidence) ==
    IF Ge(Round2(adjustedConfidence), 7500000) THEN "genuine"
    ELSE "suspected_forgery"

\* the classification with the former genuine threshold of 0.70
stage3Classify_OldThreshold(adjustedConfidence) ==
    IF Ge(adjustedConfidence, 7000000) THEN "genuine"
    ELSE IF Ge(adjustedConfidence, 5500000) THEN "suspected_forgery"
    ELSE "suspected_forgery"

\* Stage 3: classification thresholds
stage3Classify(adjustedConfidence) ==
    IF Ge(adjustedConfidence, 7500000) THEN "genuine"
    ELSE IF Ge(adjustedConfidence, 5500000) THEN "suspected_forgery"
    ELSE "suspected_forgery"

\* a simulated text that changes with the instant of the analysis
featureFields_Timed(s, width, height, now) ==
    [edgeConsistency |-> Round2(s.edgeScore),
     textureAnalysis |-> Round2(s.textureScore),
     compressionArtifacts |-> Round2(s.compressionScore),
     ocrConsistency |-> Round2(Over(Add(s.edgeScore, s.alignmentScore), 2)),
     fontConsistency |-> Round2(s.alignmentScore),
     alignmentScore |-> Round2(s.alignmentScore),
     extractedText |->
         IF now % 2 = 0 THEN "standard" ELSE generateOCRSimulation(width, height),
     analyzedAt |-> now]

\* the six feature fields, the OCR text and the timestamp of both returns
featureFields(s, width, height, now) ==
    [edgeConsistency |-> Round2(s.edgeScore),
     textureAnalysis |-> Round2(s.textureScore),
     compressionArtifacts |-> Round2(s.compressionScore),
     ocrConsistency |-> Round2(Over(Add(s.edgeScore, s.alignmentScore), 2)),
     fontConsistency |-> Round2(s.alignmentScore),
     alignmentScore |-> Round2(s.alignmentScore),
     extractedText |-> generateOCRSimulation(width, height),
     analyzedAt |-> now]

\* Stage 1 to Stage 3 on the six scores: which return statement is taken,
\* and the result and confidenceScore it reports
decisionOf(s) ==
    LET confidenceScore == weightedConfidence(s)
        adjustedConfidence == stage2Adjust(confidenceScore, warningAnomaliesOf(s))
    IN  IF stage1Gate(criticalAnomaliesOf(s))
        THEN [stage |-> "gate", result |-> "suspected_forgery",
              confidenceScore |-> stage1Confidence(confidenceScore)]
        ELSE [stage |-> "threshold", result |-> stage3Classify(adjustedConfidence),
              confidenceScore |-> Round2(adjustedConfidence)]

\* the pipeline after loadImage / getImageData: the locals at the return
\* statement that is taken (loc) and the returned record (ret)
analyzeDocument(img0, now) ==
    LET i == getImageData(img0, 512)
        s == [edgeScore |-> analyzeEdgeConsistency(i),
              textureScore |-> analyzeTexture(i),
              compressionScore |-> analyzeCompressionArtifacts(i),
              colorScore |-> analyzeColorConsistency(i),
              noiseScore |-> analyzeNoisePattern(i),
              alignmentScore |-> analyzeAlignment(i)]
        confidenceScore == weightedConfidence(s)
        criticalAnomalies == criticalAnomaliesOf(s)
        warningAnomalies == warningAnomaliesOf(s)
        anomalies == anomaliesOf(s)
        adjustedConfidence == stage2Adjust(confidenceScore, warningAnomalies)
        common == [width |-> i.width, height |-> i.height,
                   textLines |-> textLinesOf(i),
                   textureBlocks |-> [xs |-> BlockOrigins(i.width, 16),
                                      ys |-> BlockOrigins(i.height, 16)],
                   colorBlocks |-> [xs |-> BlockOrigins(i.width, 32),
                                    ys |-> BlockOrigins(i.height, 32)],
                   scores |-> s, confidenceScore |-> confidenceScore,
                   criticalAnomalies |-> criticalAnomalies,
                   warningAnomalies |-> warningAnomalies]
    IN  IF loaderRejects(img0, 512) THEN Rejected
        ELSE IF stage1Gate(criticalAnomalies)
        THEN [loc |-> [stage |-> "gate"] @@ common,
              ret |-> [result |-> decisionOf(s).result,
                       confidenceScore |-> decisionOf(s).confidenceScore,
                       anomalies |-> criticalAnomalies \o warningAnomalies]
                      @@ featureFields(s, i.width, i.height, now)]
        ELSE [loc |-> [stage |-> "threshold",
                       adjustedConfidence |-> adjustedConfidence] @@ common,
              ret |-> [result |-> decisionOf(s).result,
                       confidenceScore |-> decisionOf(s).confidenceScore,
                       anomalies |-> anomalies]
                      @@ featureFields(s, i.width, i.height, now)]

-----------------------------------------------------------------------------
(* The specialized pipeline: document type detection                       *)

\* fraction of sampled header pixels that are orange or blue, doubled
analyzeAadhaarColors(i) ==
    LET headerHeight == (3 * i.height) \div 10
        totalPixels == headerHeight * Cardinality({x \in 0..(i.width - 1) : x % 4 = 0})
    IN  IF totalPixels = 0 THEN 0
        ELSE MathMin(One, i.headerOrangeBlue * 2)

\* blueRatio * 0.3 + whiteRatio * 0.7 over every fourth pixel
analyzePANColors(i) ==
    LET totalPixels == Cardinality({y \in 0..(i.height - 1) : y % 4 = 0})
                       * Cardinality({x \in 0..(i.width - 1) : x % 4 = 0})
    IN  IF totalPixels = 0 THEN 0
        ELSE Add(Times(i.blueRatio, 30), Times(i.whiteRatio, 70))

\* Math.min(1, colorBuckets.size / 50)
analyzeColorVariety(i) == MathMin(One, i.colorBuckets * (One \div 50))

\* Math.min(1, colorVariety * 1.5)
analyzeVoterIDPatterns(i) == MathMin(One, Times(analyzeColorVariety(i), 150))

\* Math.min(1, borderPixels / totalBorderPixels * 3); row 0 is always sampled
detectBorderPattern(i) ==
    LET totalBorderPixels == Cardinality({x \in 0..(i.width - 1) : x % 4 = 0})
    IN  IF totalBorderPixels = 0 THEN 0
        ELSE MathMin(One, i.borderDark * 3)

\* 1 - |density - 0.15| / 0.15, not clamped; the loops step by 4 from
\* 0.1 * size while below 0.9 * size
analyzeTextDensity(i) ==
    LET totalPixels == Cardinality({k \in 0..i.height : 5 * k < i.height})
                       * Cardinality({k \in 0..i.width : 5 * k < i.width})
        density == i.textDensity
        gap == IF density >= 1500000 THEN density - 1500000 ELSE 1500000 - density
    IN  IF totalPixels = 0 THEN 0
        ELSE One - (gap * 100) \div 15

\* borderScore * 0.4 + textDensity * 0.6
analyzeCertificatePatterns(i) ==
    Add(Times(detectBorderPattern(i), 40), Times(analyzeTextDensity(i), 60))

\* aspectRatio = width / height compared with a two-decimal literal n / 100
AspectAtLeast(i, n) == 100 * i.width >= n * i.height
AspectAtMost(i, n) == 100 * i.width <= n * i.height

\* the warning that names the guessed type, type.replace('_', ' ')
formatAnomaly ==
    [aadhaar_card |-> "Document format does not strongly match typical aadhaar card patterns",
     pan_card |-> "Document format does not strongly match typical pan card patterns",
     voter_id |-> "Document format does not strongly match typical voter id patterns",
     nursing_certificate |-> "Document format does not strongly match typical nursing certificate patterns",
     other_govt_id |-> "Document format does not strongly match typical other govt_id patterns"]

detectIndianDocumentType(i) ==
    IF AspectAtLeast(i, 160) /\ AspectAtMost(i, 170) /\ analyzeAadhaarColors(i) > 6000000
    THEN [type |-> "aadhaar_card", confidence |-> analyzeAadhaarColors(i),
          features |-> <<"Orange-blue gradient header", "12-digit UID pattern", "QR code region">>]
    ELSE IF AspectAtLeast(i, 160) /\ AspectAtMost(i, 175) /\ analyzePANColors(i) > 5000000
    THEN [type |-> "pan_card", confidence |-> analyzePANColors(i),
          features |-> <<"Blue header pattern", "White background", "Alphanumeric PAN format">>]
    ELSE IF AspectAtLeast(i, 140) /\ AspectAtMost(i, 160) /\ analyzeVoterIDPatterns(i) > 5000000
    THEN [type |-> "voter_id", confidence |-> analyzeVoterIDPatterns(i),
          features |-> <<"Election Commission logo region", "Photo placeholder", "EPIC number format">>]
    ELSE IF AspectAtLeast(i, 70) /\ AspectAtMost(i, 85) /\ analyzeCertificatePatterns(i) > 6000000
    THEN [type |-> "nursing_certificate", confidence |-> analyzeCertificatePatterns(i),
          features |-> <<"Certificate border pattern", "Seal/Stamp region", "Official letterhead">>]
    ELSE [type |-> "other_govt_id", confidence |-> 3000000,
          features |-> <<"Generic document format">>]

-----------------------------------------------------------------------------
(* The specialized pipeline: extractors                                    *)

\* for (let y = 2; y < height - 2; y++)
Interior2(n) == {y \in 0..n : 2 <= y /\ y < n - 2}

\* 1 - (stdDev / (mean + 1)) * 0.5 over the magnitudes above edgeThreshold
analyzeIndianDocumentEdges(i) ==
    LET visited == Cardinality(Interior2(i.height)) * Cardinality(Interior2(i.width))
        edgesLength == IF i.strongEdges THEN visited ELSE 0
        consistency == Sub(One, Times(i.strongEdgeCoefficient, 50))
    IN  IF edgesLength = 0 THEN 5000000
        ELSE Clamp01(consistency)

\* 1 - sqrt(varOfVar) / (meanVar + 100) over 32x32 blocks
analyzeTextureAuthenticity(i) ==
    LET blockSize == 32
        blockVariancesLength == BlockCount(i.width, i.height, blockSize)
    IN  IF blockVariancesLength = 0 THEN 5000000
        ELSE Clamp01(Sub(One, i.textureSpread))

\* hologramPixels / totalPixels and watermarkPixels / totalPixels, scaled
detectSecurityFeatures(i) ==
    [hologramScore |-> MathMin(One, i.hologramDensity * 10),
     watermarkScore |-> MathMin(One, i.watermarkDensity * 5),
     microprintScore |-> 5000000]

-----------------------------------------------------------------------------
(* analyzeIndianDocument: weights, anomalies and the decision              *)

baselineWeights ==
    [edge |-> 20, texture |-> 20, security |-> 25, docType |-> 20, consistency |-> 15]

\* switch (docTypePattern.type)
adjustWeights(type) ==
    CASE type = "aadhaar_card" ->
            [edge |-> 15, texture |-> 15, security |-> 30, docType |-> 25, consistency |-> 15]
      [] type = "pan_card" ->
            [edge |-> 20, texture |-> 20, security |-> 20, docType |-> 25, consistency |-> 15]
      [] type = "nursing_certificate" ->
            [edge |-> 25, texture |-> 25, security |-> 15, docType |-> 20, consistency |-> 15]
      [] OTHER -> baselineWeights

\* a security score that trusts the hologram more than the watermark
securityScoreOf_HologramHeavy(securityFeatures) ==
    Add(Times(securityFeatures.hologramScore, 50),
    Add(Times(securityFeatures.watermarkScore, 30),
        Times(securityFeatures.microprintScore, 20)))

\* hologram * 0.4 + watermark * 0.4 + microprint * 0.2
securityScoreOf(securityFeatures) ==
    Add(Times(securityFeatures.hologramScore, 40),
    Add(Times(securityFeatures.watermarkScore, 40),
        Times(securityFeatures.microprintScore, 20)))

\* Calculate overall confidence; 0.8 is the consistency baseline
indianConfidence(edgeScore, textureScore, securityScore, docTypePattern, w) ==
    Add(Times(edgeScore, w.edge),
    Add(Times(textureScore, w.texture),
    Add(Times(securityScore, w.security),
    Add(Times(docTypePattern.confidence, w.docType),
        Times(8000000, w.consistency)))))

\* Detect anomalies, in program order
indianAnomalies(edgeScore, textureScore, securityScore, docTypePattern) ==
    PushIf(Lt(edgeScore, 5000000),
           "Edge patterns inconsistent with authentic Indian government documents")
    \o PushIf(Lt(textureScore, 5000000),
           "Texture analysis suggests digital manipulation or low-quality scan")
    \o PushIf(Lt(securityScore, 3000000) /\ docTypePattern.type # "other_govt_id",
           "Security features (hologram/watermark) not detected as expected")
    \o PushIf(Lt(docTypePattern.confidence, 4000000), formatAnomaly[docTypePattern.type])

\* a verdict taken from the confidence alone
indianResult_ByConfidence(confidenceScore, anomalies) ==
    IF Ge(confidenceScore, 7500000) THEN "genuine" ELSE "suspected_forgery"

\* Determine result
indianResult(confidenceScore, anomalies) ==
    IF Ge(confidenceScore, 7500000) /\ Len(anomalies) <= 1 THEN "genuine"
    ELSE IF Ge(confidenceScore, 5500000) /\ Len(anomalies) <= 2 THEN "suspected_forgery"
    ELSE "suspected_forgery"

\* the OCR template is chosen by the type and lists the features
generateIndianDocumentOCR(docType, features) ==
    [template |-> docType, detected |-> features]

\* the pipeline after loadImage / getImageData
analyzeIndianDocument(img0, now) ==
    LET i == getImageData(img0, 1024)
        docTypePattern == detectIndianDocumentType(i)
        edgeScore == analyzeIndianDocumentEdges(i)
        textureScore == analyzeTextureAuthenticity(i)
        securityFeatures == detectSecurityFeatures(i)
        w == adjustWeights(docTypePattern.type)
        securityScore == securityScoreOf(securityFeatures)
        confidenceScore ==
            indianConfidence(edgeScore, textureScore, securityScore, docTypePattern, w)
        anomalies == indianAnomalies(edgeScore, textureScore, securityScore, docTypePattern)
    IN  IF loaderRejects(img0, 1024) THEN Rejected ELSE
        [loc |-> [stage |-> "indian", width |-> i.width, height |-> i.height,
                  textureBlocks |-> [xs |-> BlockOrigins(i.width, 32),
                                     ys |-> BlockOrigins(i.height, 32)],
                  docTypePattern |-> docTypePattern,
                  edgeScore |-> edgeScore, textureScore |-> textureScore,
                  securityFeatures |-> securityFeatures,
                  weights |-> w, securityScore |-> securityScore,
                  confidenceScore |-> confidenceScore],
         ret |-> [result |-> indianResult(confidenceScore, anomalies),
                  confidenceScore |-> Round2(confidenceScore),
                  edgeConsistency |-> Round2(edgeScore),
                  textureAnalysis |-> Round2(textureScore),
                  compressionArtifacts |-> Round2(securityFeatures.watermarkScore),
                  ocrConsistency |-> Round2(docTypePattern.confidence),
                  fontConsistency |-> Round2(securityScore),
                  alignmentScore |-> Round2(edgeScore),
                  extractedText |->
                      generateIndianDocumentOCR(docTypePattern.type, docTypePattern.features),
                  anomalies |-> anomalies,
                  analyzedAt |-> now,
                  indianDocType |-> docTypePattern.type,
                  detectedFeatures |-> docTypePattern.features]]

-----------------------------------------------------------------------------
(* Inputs                                                                  *)

\* how many thousandths below a threshold the scores of the grid reach
MaxDelta == 1

\* the instants the wall clock may show
MaxClock == 1

Below(threshold) == {threshold - d * Milli : d \in 1..MaxDelta}

\* an 80 x 80 image on which every extractor has samples and returns 1.0:
\* three text bands of heights 1, 2 and 3, no orange, blue, white or dark
\* pixels, no strong edge, no hologram or watermark pixel
Plain ==
    [decodable |-> TRUE, width |-> 80, height |-> 80,
     edgeCoefficient |-> 0, textureConsistency |-> 0,
     boundaryDiff |-> 2000, interiorDiff |-> 2000,
     colorVaries |-> TRUE, correlationStd |-> 0,
     noiseVariation |-> 0, darkRows |-> {1, 4, 5, 8, 9, 10}, lineHeightCv |-> 0,
     headerOrangeBlue |-> 0, blueRatio |-> 0, whiteRatio |-> 0, colorBuckets |-> 1,
     borderDark |-> 0, textDensity |-> 0,
     strongEdges |-> FALSE, strongEdgeCoefficient |-> 0, textureSpread |-> 0,
     hologramDensity |-> 0, watermarkDensity |-> 0]

\* scores around the critical and the acceptable threshold of a feature,
\* the best score and a statistic so large that the score is clamped to 0
EdgeCoefficients ==
    {3 * (One - g) : g \in Below(4500000) \cup Below(6000000) \cup {4500000, 6000000, One}}
    \cup {45000000}
TextureConsistencies ==
    {5 * (One - g) : g \in Below(5000000) \cup Below(6500000) \cup {5000000, 6500000, One}}
    \cup {60000000}
BoundaryDiffs ==
    {(3 * One - g) \div 10000 :
        g \in Below(4000000) \cup Below(5500000) \cup {4000000, 5500000, One}}
    \cup {0}
CorrelationStds == {0, 1330000, 5000000} \cup {1330000 + d * Milli : d \in 1..MaxDelta}
NoiseVariations == {One - g : g \in Below(5500000) \cup {5500000, One}} \cup {15000000}
LineHeightCvs == {One - g : g \in Below(5500000) \cup {5500000, One}} \cup {15000000}

\* every combination of the six statistics on the 80 x 80 image
ScoreGridImages ==
    {[Plain EXCEPT !.edgeCoefficient = e, !.textureConsistency = t, !.boundaryDiff = c,
                   !.correlationStd = k, !.noiseVariation = n, !.lineHeightCv = a] :
        e \in EdgeCoefficients, t \in TextureConsistencies, c \in BoundaryDiffs,
        k \in CorrelationStds, n \in NoiseVariations, a \in LineHeightCvs}

\* an image whose statistics are all poor wherever there are samples
Busy ==
    [Plain EXCEPT !.edgeCoefficient = 45000000, !.textureConsistency = 60000000,
                  !.boundaryDiff = 0, !.correlationStd = 5000000,
                  !.noiseVariation = 15000000, !.lineHeightCv = 15000000,
                  !.strongEdges = TRUE, !.strongEdgeCoefficient = 25000000,
                  !.textureSpread = 12000000]

\* sizes around the 3 x 3 operator, the 8-pixel period and the block sizes
SmallSizes == {1, 2, 3, 10, 17, 33, 35}

\* small, flat and busy images of every small size, with and without a
\* uniform colour and with and without dark rows
DegenerateImages ==
    {[b EXCEPT !.width = w, !.height = h, !.colorVaries = v,
               !.darkRows = d \cap (0..(h - 1))] :
        b \in {Plain, Busy}, w \in SmallSizes, h \in SmallSizes,
        v \in BOOLEAN, d \in {{}, Plain.darkRows}}

\* images the loader cannot turn into a pixel buffer, and images it downscales
LoaderImages ==
    {[Plain EXCEPT !.decodable = FALSE],
     [Plain EXCEPT !.width = 3000, !.height = 1],
     [Plain EXCEPT !.width = 0, !.height = 80],
     [Plain EXCEPT !.width = 2048, !.height = 1024],
     [Busy EXCEPT !.width = 600, !.height = 900]}

\* the visual cues the type detector measures: none, moderate, strong
TypeCues ==
    {[headerOrangeBlue |-> 0, blueRatio |-> 0, whiteRatio |-> 0,
      colorBuckets |-> 1, borderDark |-> 0, textDensity |-> 9000000],
     [headerOrangeBlue |-> 3100000, blueRatio |-> 2000000, whiteRatio |-> 7000000,
      colorBuckets |-> 20, borderDark |-> 2000000, textDensity |-> 1500000],
     [headerOrangeBlue |-> 6000000, blueRatio |-> 1000000, whiteRatio |-> 9000000,
      colorBuckets |-> 60, borderDark |-> 5000000, textDensity |-> 1500000]}

\* card, wide card, voter card, certificate and square formats
Formats == {<<165, 100>>, <<172, 100>>, <<150, 100>>, <<75, 100>>, <<80, 80>>}

StrongEdgeCoefficients ==
    {2 * (One - g) : g \in Below(5000000) \cup {5000000, One}} \cup {25000000}
TextureSpreads == {One - g : g \in Below(5000000) \cup {5000000, One}} \cup {12000000}
HologramDensities == {0, 500000, 2000000}
WatermarkDensities == {0, 1000000, 3000000}

\* every combination of format, cues and statistics of the specialized pipeline
IndianImages ==
    {[Plain EXCEPT !.width = f[1], !.height = f[2],
                   !.headerOrangeBlue = q.headerOrangeBlue, !.blueRatio = q.blueRatio,
                   !.whiteRatio = q.whiteRatio, !.colorBuckets = q.colorBuckets,
                   !.borderDark = q.borderDark, !.textDensity = q.textDensity,
                   !.strongEdges = (e # 0), !.strongEdgeCoefficient = e,
                   !.textureSpread = t, !.hologramDensity = g, !.watermarkDensity = m] :
        f \in Formats, q \in TypeCues, e \in StrongEdgeCoefficients \cup {0},
        t \in TextureSpreads, g \in HologramDensities, m \in WatermarkDensities}

\* what the sampling loops measure on an image of one solid colour: no
\* variation anywhere, and colour ratios of 0 or 1 fixed by the colour
Solid ==
    [Plain EXCEPT !.boundaryDiff = 0, !.interiorDiff = 0,
                  !.colorVaries = FALSE, !.darkRows = {}]

\* mid grey (128,128,128), light grey (200,200,200), white (255,255,255)
\* and orange (255,140,0)
SolidColours ==
    {Solid,
     [Solid EXCEPT !.watermarkDensity = One],
     [Solid EXCEPT !.whiteRatio = One],
     [Solid EXCEPT !.headerOrangeBlue = One, !.hologramDensity = One]}

\* a screen-sized page, one that is downscaled, a card and a 2 x 2 icon
SolidFormats == {<<1024, 768>>, <<2048, 1536>>, <<165, 100>>, <<2, 2>>}

UniformImages ==
    {[c EXCEPT !.width = f[1], !.height = f[2]] : c \in SolidColours, f \in SolidFormats}

\* images that are whole numbers of 16 x 16 tiles: one, two and three a side
TileSizes == {16, 32, 48}

TileImages ==
    {[Plain EXCEPT !.width = w, !.height = h,
                   !.darkRows = Plain.darkRows \cap (0..(h - 1))] :
        w \in TileSizes, h \in TileSizes}

\* images that step only at the columns of the 8-pixel period, and images
\* that step only between them
BlockyImages ==
    {[Plain EXCEPT !.boundaryDiff = b, !.interiorDiff = n, !.width = w] :
        b \in {0, 2000, 40000}, n \in {0, 2000}, w \in {9, 80}}

Images ==
    ScoreGridImages \cup DegenerateImages \cup LoaderImages \cup IndianImages
        \cup UniformImages \cup TileImages \cup BlockyImages

-----------------------------------------------------------------------------
(* The state machine: one image, analysed once by one of the pipelines     *)

Init ==
    /\ pc = "idle"
    /\ img \in Images
    /\ clock \in 1..MaxClock
    /\ loc = [stage |-> "none"]
    /\ ret = None
    /\ prev = None
    /\ uploads = <<>>
    /\ documents = <<>>

\* export async function analyzeDocument(fileData)
AnalyzeDocument ==
    /\ pc = "idle"
    /\ pc' = "generic"
    /\ loc' = analyzeDocument(img, clock).loc
    /\ ret' = analyzeDocument(img, clock).ret
    /\ UNCHANGED <<img, clock, prev, uploads, documents>>

\* export async function analyzeIndianDocument(fileData)
AnalyzeIndianDocument ==
    /\ pc = "idle"
    /\ pc' = "indian"
    /\ loc' = analyzeIndianDocument(img, clock).loc
    /\ ret' = analyzeIndianDocument(img, clock).ret
    /\ UNCHANGED <<img, clock, prev, uploads, documents>>

Next == AnalyzeDocument \/ AnalyzeIndianDocument

Spec == Init /\ [][Next]_vars

\* the pipeline named p has returned a record
Returned(p) == pc = p /\ ret.result \notin {"none", "rejected"}

-----------------------------------------------------------------------------
(* Repeated invocation: the same image analysed a second time, at the same *)
(* or at a later instant, by the pipeline that analysed it first           *)

\* images of every path: rejected, degenerate, solid, gated, thresholded,
\* and one of each format and type cue for the specialized pipeline
RepeatImages ==
    DegenerateImages \cup LoaderImages \cup UniformImages
        \cup {[Plain EXCEPT !.edgeCoefficient = e, !.textureConsistency = t] :
                e \in EdgeCoefficients, t \in TextureConsistencies}
        \cup {[Plain EXCEPT !.width = f[1], !.height = f[2],
                   !.headerOrangeBlue = q.headerOrangeBlue, !.blueRatio = q.blueRatio,
                   !.whiteRatio = q.whiteRatio, !.colorBuckets = q.colorBuckets,
                   !.borderDark = q.borderDark, !.textDensity = q.textDensity,
                   !.hologramDensity = g, !.watermarkDensity = g] :
                f \in Formats, q \in TypeCues, g \in HologramDensities}

InitRepeat ==
    /\ pc = "idle"
    /\ img \in RepeatImages
    /\ clock \in 1..MaxClock
    /\ loc = [stage |-> "none"]
    /\ ret = None
    /\ prev = None
    /\ uploads = <<>>
    /\ documents = <<>>

\* a second call of analyzeDocument(fileData) with the same fileData
AnalyzeDocumentAgain ==
    /\ pc = "generic"
    /\ prev = None
    /\ \E now \in {clock, clock + 1} :
          /\ clock' = now
          /\ loc' = analyzeDocument(img, now).loc
          /\ ret' = analyzeDocument(img, now).ret
    /\ prev' = ret
    /\ UNCHANGED <<pc, img, uploads, documents>>

\* a second call of analyzeIndianDocument(fileData) with the same fileData
AnalyzeIndianDocumentAgain ==
    /\ pc = "indian"
    /\ prev = None
    /\ \E now \in {clock, clock + 1} :
          /\ clock' = now
          /\ loc' = analyzeIndianDocument(img, now).loc
          /\ ret' = analyzeIndianDocument(img, now).ret
    /\ prev' = ret
    /\ UNCHANGED <<pc, img, uploads, documents>>

NextRepeat ==
    \/ AnalyzeDocument
    \/ AnalyzeIndianDocument
    \/ AnalyzeDocumentAgain
    \/ AnalyzeIndianDocumentAgain

SpecRepeat == InitRepeat /\ [][NextRepeat]_vars

-----------------------------------------------------------------------------
(* The nurse upload flow: DocumentManager.handleUpload and DocumentDB.     *)
(* Each upload runs in the browser session of a nurse (the file inputs of  *)
(* one session are disabled while its upload runs); the sessions share the *)
(* nurse_documents table.  An upload advances at the points where the      *)
(* handler waits: FileReader, DocumentDB.create, the analysis, and         *)
(* DocumentDB.update.                                                      *)

\* how many uploads are in flight at the same time
MaxUploads == 2

Uploads == 1..MaxUploads

\* the id 'temp' of the record DocumentDB.create returns when the insert
\* failed; the table numbers its own rows from 1
TempId == 0

\* doc before DocumentDB.create has returned
NoDoc == 0 - 1

\* an Aadhaar card that the specialized pipeline finds genuine
GenuineCard ==
    [Plain EXCEPT !.width = 165, !.height = 100, !.headerOrangeBlue = 6000000,
                  !.hologramDensity = 2000000, !.watermarkDensity = 3000000]

\* the files a nurse may choose: a genuine card, a poor scan, data that is
\* not an image, and a strip that scales to a height of zero
UploadFiles ==
    {GenuineCard, Busy,
     [Plain EXCEPT !.decodable = FALSE],
     [Plain EXCEPT !.width = 3000, !.height = 1]}

\* insert(row).select().single(): the new row, or id 'temp' and no row
create(table, fileData, inserted) ==
    IF inserted
    THEN [table |-> Append(table, [fileData |-> fileData, aiAnalysis |-> None]),
          id |-> Len(table) + 1]
    ELSE [table |-> table, id |-> TempId]

\* update(mapped).eq('id', id).select().single(): the row with that id takes
\* the analysis; no such row, or an error of the store, returns undefined
update(table, id, aiAnalysis, applied) ==
    IF applied /\ id \in DOMAIN table
    THEN [table |-> [table EXCEPT ![id].aiAnalysis = aiAnalysis], data |-> TRUE]
    ELSE [table |-> table, data |-> FALSE]

\* const docAnalysis: DocumentAnalysis = { result: analysis.result, ... }
docAnalysis(analysis) ==
    [result |-> analysis.result,
     confidenceScore |-> analysis.confidenceScore,
     edgeConsistency |-> analysis.edgeConsistency,
     textureAnalysis |-> analysis.textureAnalysis,
     compressionArtifacts |-> analysis.compressionArtifacts,
     ocrConsistency |-> analysis.ocrConsistency,
     fontConsistency |-> analysis.fontConsistency,
     alignmentScore |-> analysis.alignmentScore,
     extractedText |-> analysis.extractedText,
     anomalies |-> analysis.anomalies,
     analyzedAt |-> analysis.analyzedAt]

\* an image that cannot be processed filed as a suspected forgery
pendingAnalysis_Verdict(now) ==
    [result |-> "suspected_forgery", confidenceScore |-> 0, edgeConsistency |-> 0,
     textureAnalysis |-> 0, compressionArtifacts |-> 0, ocrConsistency |-> 0,
     fontConsistency |-> 0, alignmentScore |-> 0,
     extractedText |-> [template |-> "Analysis failed", detected |-> <<>>],
     anomalies |-> <<"Unable to process image">>,
     analyzedAt |-> now]

\* the record of the catch block; the text 'Analysis failed' is held in the
\* shape generateIndianDocumentOCR gives the text of a record
pendingAnalysis(now) ==
    [result |-> "pending", confidenceScore |-> 0, edgeConsistency |-> 0,
     textureAnalysis |-> 0, compressionArtifacts |-> 0, ocrConsistency |-> 0,
     fontConsistency |-> 0, alignmentScore |-> 0,
     extractedText |-> [template |-> "Analysis failed", detected |-> <<>>],
     anomalies |-> <<"Unable to process image">>,
     analyzedAt |-> now]

\* try { analysis = await analyzeIndianDocument(fileData); ... } catch { ... }:
\* the aiAnalysis handed to DocumentDB.update
aiAnalysisOf(analysis, now) ==
    IF analysis.result = "rejected" THEN pendingAnalysis(now) ELSE docAnalysis(analysis)

\* the analysis filed under the document that was created last
updatedId_Latest(docId, table) == Len(table)

\* DocumentDB.update(doc.id, ...): the id of the doc this handler created
updatedId(docId, table) == docId

\* an upload before its change event, the nurse about to choose file f
idleUpload(f) ==
    [pc |-> "idle", file |-> f, docId |-> NoDoc, analysis |-> None,
     aiAnalysis |-> None, updated |-> FALSE,
     uploading |-> FALSE, analyzing |-> FALSE, listed |-> {}]

InitUpload ==
    /\ pc = "idle"
    /\ img = Plain
    /\ clock \in 1..MaxClock
    /\ loc = [stage |-> "none"]
    /\ ret = None
    /\ prev = None
    /\ uploads \in [Uploads -> {idleUpload(f) : f \in UploadFiles}]
    /\ documents = <<>>

\* handleUpload up to reader.readAsDataURL(file)
HandleUpload(u) ==
    /\ uploads[u].pc = "idle"
    /\ uploads' = [uploads EXCEPT ![u].pc = "reading",
                                  ![u].uploading = TRUE, ![u].analyzing = TRUE]
    /\ UNCHANGED <<pc, img, clock, loc, ret, prev, documents>>

\* reader.onload up to await DocumentDB.create(...)
ReaderOnload(u) ==
    /\ uploads[u].pc = "reading"
    /\ uploads' = [uploads EXCEPT ![u].pc = "creating"]
    /\ UNCHANGED <<pc, img, clock, loc, ret, prev, documents>>

\* the reader fires its error event; the handler registered no onerror
ReaderOnerror(u) ==
    /\ uploads[u].pc = "reading"
    /\ uploads' = [uploads EXCEPT ![u].pc = "readerror"]
    /\ UNCHANGED <<pc, img, clock, loc, ret, prev, documents>>

\* DocumentDB.create answers; the handler calls analyzeIndianDocument(fileData)
DocumentDBCreate(u) ==
    /\ uploads[u].pc = "creating"
    /\ \E inserted \in BOOLEAN :
          LET doc == create(documents, uploads[u].file, inserted)
          IN  /\ documents' = doc.table
              /\ uploads' = [uploads EXCEPT ![u].pc = "analyzing", ![u].docId = doc.id]
    /\ UNCHANGED <<pc, img, clock, loc, ret, prev>>

\* await analyzeIndianDocument(fileData): what the promise settles with, for
\* every file a nurse may choose and every reading of the clock
settledAnalysis ==
    [f \in UploadFiles, now \in 1..MaxClock |-> analyzeIndianDocument(f, now).ret]

\* the promise of analyzeIndianDocument settles; the try or the catch block
\* runs up to its await DocumentDB.update(doc.id, { aiAnalysis })
AnalyzeSettled(u) ==
    /\ uploads[u].pc = "analyzing"
    /\ LET analysis == settledAnalysis[uploads[u].file, clock]
       IN  uploads' = [uploads EXCEPT ![u].pc = "updating",
                                      ![u].analysis = analysis,
                                      ![u].aiAnalysis = aiAnalysisOf(analysis, clock)]
    /\ UNCHANGED <<pc, img, clock, loc, ret, prev, documents>>

\* DocumentDB.update answers; setUploading(false); setAnalyzing(false);
\* refresh() lists the documents
DocumentDBUpdate(u) ==
    /\ uploads[u].pc = "updating"
    /\ \E applied \in BOOLEAN :
          LET answer == update(documents, updatedId(uploads[u].docId, documents),
                               uploads[u].aiAnalysis, applied)
          IN  /\ documents' = answer.table
              /\ uploads' = [uploads EXCEPT ![u].pc = "done",
                                            ![u].updated = answer.data,
                                            ![u].uploading = FALSE,
                                            ![u].analyzing = FALSE,
                                            ![u].listed = DOMAIN answer.table]
    /\ UNCHANGED <<pc, img, clock, loc, ret, prev>>

NextUpload ==
    \E u \in Uploads :
        \/ HandleUpload(u)
        \/ ReaderOnload(u)
        \/ ReaderOnerror(u)
        \/ DocumentDBCreate(u)
        \/ AnalyzeSettled(u)
        \/ DocumentDBUpdate(u)

SpecUpload == InitUpload /\ [][NextUpload]_vars

\* The scheduling of the upload flow.  A FileReader that was started ends
\* with its load or its error event; every awaited promise (the answers of
\* the store, the analysis) settles and the continuation of the handler
\* runs.  Choosing a file is up to the nurse and is not forced.
FairUpload(u) ==
    /\ WF_vars(ReaderOnload(u) \/ ReaderOnerror(u))
    /\ WF_vars(DocumentDBCreate(u))
    /\ WF_vars(AnalyzeSettled(u))
    /\ WF_vars(DocumentDBUpdate(u))

SpecUploadFair == SpecUpload /\ \A u \in Uploads : FairUpload(u)

-----------------------------------------------------------------------------
(* AdminAIMonitor: the counters and the filter of the dashboard, computed  *)
(* from the rows DocumentDB.getAll() returned                              *)

\* d.aiAnalysis?.result === result; a row without aiAnalysis has no result
hasResult(d, result) == d.aiAnalysis # None /\ d.aiAnalysis.result = result

\* documents.filter(d => d.aiAnalysis?.result === 'genuine').length
genuineCount(docs) ==
    Cardinality({k \in DOMAIN docs : hasResult(docs[k], "genuine")})

\* documents.filter(d => d.aiAnalysis?.result === 'suspected_forgery').length
forgeryCount(docs) ==
    Cardinality({k \in DOMAIN docs : hasResult(docs[k], "suspected_forgery")})

\* documents.filter(d => !d.aiAnalysis).length
pendingCount(docs) ==
    Cardinality({k \in DOMAIN docs : docs[k].aiAnalysis = None})

\* the values of the filter buttons
Filters == {"all", "genuine", "forgery", "pending"}

\* const filtered = documents.filter(d => { ... }): the rows shown
filtered(docs, filter) ==
    {k \in DOMAIN docs :
        IF filter = "genuine" THEN hasResult(docs[k], "genuine")
        ELSE IF filter = "forgery" THEN hasResult(docs[k], "suspected_forgery")
        ELSE IF filter = "pending" THEN docs[k].aiAnalysis = None
        ELSE TRUE}

-----------------------------------------------------------------------------
(* Vocabulary of the properties                                            *)

\* a defined number in [0, 1]
InUnit(x) == ~IsNaN(x) /\ 0 <= x /\ x <= One

\* a value that Math.round(x * 100) / 100 can produce
IsRounded2(x) == IsNaN(x) \/ x % 100000 = 0

\* the number of features of s below their critical threshold
CriticalCount(s) ==
    Cardinality({f \in {"edge", "texture", "compression"} :
        \/ f = "edge" /\ Lt(s.edgeScore, 4500000)
        \/ f = "texture" /\ Lt(s.textureScore, 5000000)
        \/ f = "compression" /\ Lt(s.compressionScore, 4000000)})

\* the six feature fields of a returned record
FeatureFields(r) ==
    {r.edgeConsistency, r.textureAnalysis, r.compressionArtifacts,
     r.ocrConsistency, r.fontConsistency, r.alignmentScore}

\* the six scores of the generic extractors
ScoreSet(s) ==
    {s.edgeScore, s.textureScore, s.compressionScore,
     s.colorScore, s.noiseScore, s.alignmentScore}

\* the messages that report a critical anomaly, in either wording
CriticalMessages ==
    {"CRITICAL: Severe edge pattern inconsistency",
     "CRITICAL: Major texture inconsistency across document regions",
     "CRITICAL: Multiple compression artifacts",
     "Severe edge pattern inconsistency detected",
     "Major texture inconsistency",
     "Multiple compression artifacts"}

-----------------------------------------------------------------------------
(* Properties                                                              *)

\* C1: a record of analyzeDocument with result genuine has a confidence of
\* at least 0.75 and no critical anomaly at all.
C1_GenuineHasNoCritical ==
    (Returned("generic") /\ ret.result = "genuine")
        => /\ Ge(ret.confidenceScore, 7500000)
           /\ CriticalCount(loc.scores) = 0

\* C2: two or more critical anomalies force result suspected_forgery,
\* whatever the other scores and the raw weighted confidence are.
C2_HardGate ==
    (Returned("generic") /\ CriticalCount(loc.scores) >= 2)
        => ret.result = "suspected_forgery"

\* edge and texture are critical, every other score is 1.0
C2_Witness ==
    /\ Returned("generic")
    /\ Lt(loc.scores.edgeScore, 4500000)
    /\ Lt(loc.scores.textureScore, 5000000)
    /\ loc.scores.compressionScore = One
    /\ loc.scores.colorScore = One
    /\ loc.scores.noiseScore = One
    /\ loc.scores.alignmentScore = One
    /\ ret.result = "suspected_forgery"

\* C3 as stated: with two or more critical anomalies the record is a
\* suspected forgery whose reported confidence is at most 0.30.
C3_GatedAtMost030 ==
    (Returned("generic") /\ CriticalCount(loc.scores) >= 2)
        => /\ ret.result = "suspected_forgery"
           /\ ret.confidenceScore <= 3000000

\* C3 as amended: with two or more critical anomalies the record is a
\* suspected forgery whose reported confidence is at most 0.43.
C3_GatedAtMost043 ==
    (Returned("generic") /\ CriticalCount(loc.scores) >= 2)
        => /\ ret.result = "suspected_forgery"
           /\ InUnit(ret.confidenceScore)
           /\ ret.confidenceScore <= 4300000

\* a gated record that reports more than 0.30
C3_Witness ==
    /\ Returned("generic")
    /\ CriticalCount(loc.scores) >= 2
    /\ ret.result = "suspected_forgery"
    /\ ret.confidenceScore > 3000000

\* C4: below the gate the adjusted confidence is raw * 0.85 for three or
\* more warnings, raw * 0.95 for exactly one, and raw for none and for two.
C4_SoftAdjustment ==
    (Returned("generic") /\ CriticalCount(loc.scores) < 2)
        => loc.adjustedConfidence =
              IF Len(loc.warningAnomalies) >= 3 THEN Times(loc.confidenceScore, 85)
              ELSE IF Len(loc.warningAnomalies) = 1 THEN Times(loc.confidenceScore, 95)
              ELSE loc.confidenceScore

\* C5: below the gate the result is genuine exactly when the adjusted
\* confidence is at least 0.75 and suspected_forgery otherwise; no record
\* returned by either pipeline carries result pending.
C5_ThresholdDecision ==
    /\ (Returned("generic") /\ CriticalCount(loc.scores) < 2)
          => /\ ret.result = "genuine" <=> Ge(loc.adjustedConfidence, 7500000)
             /\ ret.result # "genuine" => ret.result = "suspected_forgery"
    /\ (Returned("generic") \/ Returned("indian")) => ret.result # "pending"

\* a discounted confidence that still reaches the threshold
C5_Witness ==
    /\ Returned("generic")
    /\ CriticalCount(loc.scores) < 2
    /\ Len(loc.warningAnomalies) >= 1
    /\ Ge(loc.adjustedConfidence, 7500000)
    /\ ret.result = "genuine"

\* C6: every extractor score, every feature field and the reported
\* confidence of a returned record lie in [0, 1], in both pipelines.
C6_RangeInvariant ==
    /\ Returned("generic")
          => /\ \A x \in ScoreSet(loc.scores) : InUnit(x)
             /\ \A x \in FeatureFields(ret) : InUnit(x)
             /\ InUnit(ret.confidenceScore)
    /\ Returned("indian")
          => /\ InUnit(loc.edgeScore) /\ InUnit(loc.textureScore)
             /\ InUnit(loc.securityScore) /\ InUnit(loc.docTypePattern.confidence)
             /\ \A x \in FeatureFields(ret) : InUnit(x)
             /\ InUnit(ret.confidenceScore)

\* C7: on every pixel buffer of at least 1 x 1 pixels each of the six
\* generic extractors returns a defined number in [0, 1].
C7_DegenerateDefined ==
    Returned("generic") => \A x \in ScoreSet(loc.scores) : InUnit(x)

\* C8: the generic weight vector, the baseline vector and the vector selected
\* for the detected document type each sum to 1.
C8_WeightsSumToOne ==
    /\ Returned("generic")
          => weights.edge + weights.texture + weights.compression
             + weights.color + weights.noise + weights.alignment = 100
    /\ Returned("indian")
          => /\ loc.weights.edge + loc.weights.texture + loc.weights.security
                + loc.weights.docType + loc.weights.consistency = 100
             /\ baselineWeights.edge + baselineWeights.texture + baselineWeights.security
                + baselineWeights.docType + baselineWeights.consistency = 100

\* a run of the specialized pipeline that selected a per-category override
C8_Witness ==
    /\ Returned("indian")
    /\ loc.docTypePattern.type = "aadhaar_card"
    /\ loc.weights # baselineWeights

\* C9: in the anomalies list of a record of analyzeDocument no warning
\* entry precedes a critical entry.
C9_CriticalFirst ==
    Returned("generic")
        => \A j, k \in 1..Len(ret.anomalies) :
              (j < k /\ ret.anomalies[k] \in CriticalMessages)
                  => ret.anomalies[j] \in CriticalMessages

\* a record below the gate that lists a critical and a warning anomaly
C9_Witness ==
    /\ Returned("generic")
    /\ loc.stage = "threshold"
    /\ \E j, k \in 1..Len(ret.anomalies) :
          /\ ret.anomalies[j] \in CriticalMessages
          /\ ret.anomalies[k] \notin CriticalMessages

\* C10: in every returned record of either pipeline the confidence and the
\* six feature fields are rounded to two decimals.
C10_TwoDecimals ==
    (Returned("generic") \/ Returned("indian"))
        => /\ IsRounded2(ret.confidenceScore)
           /\ \A x \in FeatureFields(ret) : IsRounded2(x)

-----------------------------------------------------------------------------
(* Properties of the loader                                                *)

\* the pipeline that has run, and the cap of its loader
Ran == pc \in {"generic", "indian"}
CapOf(p) == IF p = "generic" THEN 512 ELSE 1024

\* floor(size * cap / max(width, height)) of the source image when one of
\* its dimensions exceeds the cap, the size itself otherwise
Downscaled(size, cap) ==
    IF img.width <= cap /\ img.height <= cap THEN size
    ELSE (size * cap) \div (IF img.width >= img.height THEN img.width ELSE img.height)

\* the smaller of two naturals
Smaller(a, b) == IF a <= b THEN a ELSE b

\* C12: when the input cannot be decoded as an image, analyzeDocument and
\* analyzeIndianDocument fail before any extractor has run and return no
\* record at all.
C12_DecodeFailure ==
    (Ran /\ ~img.decodable)
        => /\ ret.result = "rejected"
           /\ DOMAIN ret = {"result"}
           /\ DOMAIN loc = {"stage"}

\* the specialized pipeline was given data that is not an image
C12_Witness == pc = "indian" /\ ~img.decodable /\ ret.result = "rejected"

C14_LoaderBound ==
    (Ran /\ ret.result # "rejected")
        => /\ loc.width = Downscaled(img.width, CapOf(pc))
           /\ loc.height = Downscaled(img.height, CapOf(pc))
           /\ loc.width <= Smaller(img.width, CapOf(pc))
           /\ loc.height <= Smaller(img.height, CapOf(pc))
           /\ img.width >= 1 /\ img.height >= 1

\* a 600 x 900 portrait page reaches the generic extractors as 341 x 512
C14_Witness ==
    /\ Returned("generic")
    /\ img.width = 600 /\ img.height = 900
    /\ loc.width = 341 /\ loc.height = 512

-----------------------------------------------------------------------------
(* Properties of the anomaly tiers                                         *)

\* the message is one of the entries of the list
Has(list, msg) == \E k \in 1..Len(list) : list[k] = msg

\* a defined score below the threshold t, and one in the band [lo, hi)
Under(x, t) == ~IsNaN(x) /\ x < t
Within(x, lo, hi) == ~IsNaN(x) /\ lo <= x /\ x < hi

\* C20: the tier of each feature follows from its score alone and the tiers
\* exclude each other: edge, texture and compression are critical iff below
\* 0.45 / 0.50 / 0.40 and a warning iff from there up to 0.60 / 0.65 / 0.55;
\* color, noise and alignment raise only a warning, below 0.60 / 0.55 /
\* 0.55; so there are 0..3 critical and 0..6 warning anomalies.
C20_AnomalyTiers ==
    Returned("generic") =>
        LET s == loc.scores
            c == loc.criticalAnomalies
            w == loc.warningAnomalies
        IN  /\ Has(c, "CRITICAL: Severe edge pattern inconsistency")
                <=> Under(s.edgeScore, 4500000)
            /\ Has(c, "CRITICAL: Major texture inconsistency across document regions")
                <=> Under(s.textureScore, 5000000)
            /\ Has(c, "CRITICAL: Multiple compression artifacts")
                <=> Under(s.compressionScore, 4000000)
            /\ Has(w, "Edge patterns show minor inconsistencies")
                <=> Within(s.edgeScore, 4500000, 6000000)
            /\ Has(w, "Texture shows some irregularities")
                <=> Within(s.textureScore, 5000000, 6500000)
            /\ Has(w, "Some compression artifacts present")
                <=> Within(s.compressionScore, 4000000, 5500000)
            /\ Has(w, "Color channel inconsistency - possible image splicing")
                <=> Under(s.colorScore, 6000000)
            /\ Has(w, "Non-uniform noise patterns detected")
                <=> Under(s.noiseScore, 5500000)
            /\ Has(w, "Irregular text line alignment or spacing")
                <=> Under(s.alignmentScore, 5500000)
            /\ Cardinality({c[k] : k \in 1..Len(c)}) = Len(c)
            /\ Cardinality({w[k] : k \in 1..Len(w)}) = Len(w)
            /\ Len(c) \in 0..3
            /\ Len(w) \in 0..6

\* edge critical, texture a warning, compression clean, and the three
\* warning-only features all below their bounds
C20_Witness ==
    /\ Returned("generic")
    /\ Under(loc.scores.edgeScore, 4500000)
    /\ Within(loc.scores.textureScore, 5000000, 6500000)
    /\ loc.scores.compressionScore = One
    /\ Len(loc.criticalAnomalies) = 1
    /\ Len(loc.warningAnomalies) = 4

-----------------------------------------------------------------------------
(* Properties of the specialized record                                    *)

\* C18: in the record of analyzeIndianDocument, ocrConsistency is the
\* confidence of the type detection and fontConsistency is the security
\* score 0.4 * hologram + 0.4 * watermark + 0.2 * microprint, each rounded
\* to two decimals; edgeConsistency and textureAnalysis carry the rounded
\* scores of the specialized edge and texture extractors.
C18_SpecializedFields ==
    Returned("indian") =>
        LET f == loc.securityFeatures
        IN  /\ ret.ocrConsistency = Round2(loc.docTypePattern.confidence)
            /\ ret.fontConsistency =
                   Round2((4 * f.hologramScore + 4 * f.watermarkScore
                           + 2 * f.microprintScore) \div 10)
            /\ ret.edgeConsistency = Round2(loc.edgeScore)
            /\ ret.textureAnalysis = Round2(loc.textureScore)

\* a PAN card with more hologram than watermark, and distinct edge,
\* texture, type and security values so that no field can stand for another
C18_Witness ==
    /\ Returned("indian")
    /\ loc.docTypePattern.type = "pan_card"
    /\ loc.securityFeatures.hologramScore > loc.securityFeatures.watermarkScore
    /\ loc.securityFeatures.watermarkScore > 0
    /\ Cardinality({ret.ocrConsistency, ret.fontConsistency,
                    ret.edgeConsistency, ret.textureAnalysis}) = 4

-----------------------------------------------------------------------------
(* Properties of whole runs                                                *)

\* C16: on an image of one solid colour both analyzeDocument and
\* analyzeIndianDocument return result genuine with a confidence of at
\* least 0.75, no critical anomaly and an empty anomalies list.
C16_UniformGenuine ==
    (Ran /\ img \in UniformImages)
        => /\ ret.result = "genuine"
           /\ Ge(ret.confidenceScore, 7500000)
           /\ ret.anomalies = <<>>
           /\ pc = "generic" => loc.criticalAnomalies = <<>>

\* the part of C16 that the code does satisfy: the generic pipeline on a
\* solid image in which every extractor has a pixel with all its neighbours
C16_GenericUniform ==
    (pc = "generic" /\ img \in UniformImages /\ img.width >= 3 /\ img.height >= 3)
        => /\ ret.result = "genuine"
           /\ ret.confidenceScore = 9600000
           /\ ret.anomalies = <<>>
           /\ loc.criticalAnomalies = <<>>

\* the image with another format and other type cues, everything the edge,
\* texture and security extractors measure left as it is
Recast(i, f, q) ==
    [i EXCEPT !.width = f[1], !.height = f[2],
              !.headerOrangeBlue = q.headerOrangeBlue, !.blueRatio = q.blueRatio,
              !.whiteRatio = q.whiteRatio, !.colorBuckets = q.colorBuckets,
              !.borderDark = q.borderDark, !.textDensity = q.textDensity]

\* the messages that name the guessed type
FormatMessages == {formatAnomaly[t] : t \in DOMAIN formatAnomaly}

\* C17: in analyzeIndianDocument the guessed type acts only through the
\* weight vector: a second run with the same edge, texture and security
\* scores and the same weights returns the same result whatever type and
\* type confidence were guessed, and the guess adds no anomaly of its own.
C17_TypeGuessOnlyWeights ==
    (Returned("indian") /\ img \in IndianImages) =>
        /\ \A f \in Formats, q \in TypeCues :
              LET other == analyzeIndianDocument(Recast(img, f, q), clock)
              IN  (/\ other.ret.result # "rejected"
                   /\ other.loc.edgeScore = loc.edgeScore
                   /\ other.loc.textureScore = loc.textureScore
                   /\ other.loc.securityScore = loc.securityScore
                   /\ other.loc.weights = loc.weights)
                      => other.ret.result = ret.result
        /\ \A k \in 1..Len(ret.anomalies) : ret.anomalies[k] \notin FormatMessages

-----------------------------------------------------------------------------
(* Properties of repeated invocations                                      *)

\* the fields of a record that the claim compares: all but analyzedAt
Compared == {"result", "confidenceScore", "edgeConsistency", "textureAnalysis",
             "compressionArtifacts", "ocrConsistency", "fontConsistency",
             "alignmentScore", "extractedText", "anomalies"}

-----------------------------------------------------------------------------
(* Properties of the upload flow                                           *)

\* the analysis of upload u has failed
AnalysisFailed(u) == uploads[u].analysis.result = "rejected"

\* a well-formed pending record: confidence and the six fields 0, one anomaly
IsPendingRecord(r) ==
    /\ DOMAIN r = Compared \cup {"analyzedAt"}
    /\ r.result = "pending"
    /\ r.confidenceScore = 0
    /\ FeatureFields(r) = {0}
    /\ Len(r.anomalies) = 1

C19_CorrelatedById ==
    \A id \in DOMAIN documents :
        LET creators == {u \in Uploads : uploads[u].docId = id}
        IN  /\ Cardinality(creators) = 1
            /\ \A u \in creators :
                  /\ documents[id].fileData = uploads[u].file
                  /\ documents[id].aiAnalysis \in {None, uploads[u].aiAnalysis}
                  /\ documents[id].aiAnalysis # None =>
                         uploads[u].pc = "done" /\ uploads[u].updated

\* two overlapping uploads of different files: the one whose document was
\* created second has completed first
C19_Witness ==
    /\ uploads[1].docId = 1 /\ uploads[2].docId = 2
    /\ uploads[1].file # uploads[2].file
    /\ uploads[1].pc = "updating" /\ uploads[2].pc = "done"
    /\ documents[1].aiAnalysis = None
    /\ documents[2].aiAnalysis = uploads[2].aiAnalysis
    /\ uploads[1].aiAnalysis.result = "genuine"
    /\ uploads[2].aiAnalysis.result = "pending"

-----------------------------------------------------------------------------
(* Properties of the sampling loops                                        *)

\* the rows of the pixel buffer whose profile is below 0.9 * mean
DarkRowsOfBuffer == img.darkRows \cap (0..(loc.height - 1))

\* the first rows of the maximal dark runs, and the last row of the run
\* that starts at row a
RunStarts == {a \in DarkRowsOfBuffer : (a - 1) \notin DarkRowsOfBuffer}
RunEnd(a) ==
    CHOOSE b \in DarkRowsOfBuffer :
        /\ b >= a
        /\ (b + 1) \notin DarkRowsOfBuffer
        /\ \A y \in a..b : y \in DarkRowsOfBuffer

\* C21: the bands analyzeAlignment records are exactly the maximal runs of
\* consecutive dark rows, top to bottom, each with the length of its run as
\* its height, a run that reaches the last row included; with fewer than 3
\* recorded bands the score is 0.85.
C21_BandSegmentation ==
    (pc = "generic" /\ ret.result # "rejected") =>
        /\ Len(loc.textLines) = Cardinality(RunStarts)
        /\ \A a \in RunStarts :
              LET k == 1 + Cardinality({s \in RunStarts : s < a})
              IN  k <= Len(loc.textLines) /\ loc.textLines[k] = RunEnd(a) - a + 1
        /\ Len(loc.textLines) < 3 => loc.scores.alignmentScore = 8500000

\* the part of C21 the code satisfies: the recorded bands are the maximal
\* dark runs that are followed by a light row, in order, with their lengths
C21_ClosedBands ==
    (pc = "generic" /\ ret.result # "rejected") =>
        LET closed == {a \in RunStarts : RunEnd(a) < loc.height - 1}
        IN  /\ Len(loc.textLines) = Cardinality(closed)
            /\ \A a \in closed :
                  loc.textLines[1 + Cardinality({s \in closed : s < a})]
                      = RunEnd(a) - a + 1
            /\ Len(loc.textLines) < 3 => loc.scores.alignmentScore = 8500000

\* the origins, along one axis of length n, of the complete tiles of the
\* block grid: multiples of blockSize with the whole tile inside the image
Tiles(n, blockSize) == {t \in 0..n : t % blockSize = 0 /\ t + blockSize <= n}

\* the blocks visited along both axes are exactly the complete tiles
VisitsEveryTile(blocks, blockSize) ==
    /\ blocks.xs = Tiles(loc.width, blockSize)
    /\ blocks.ys = Tiles(loc.height, blockSize)

\* C22: the blocks visited by analyzeTexture (16 x 16), analyzeColorConsistency
\* and analyzeTextureAuthenticity (32 x 32) are disjoint, lie inside the
\* image, and are all the complete tiles of the block grid: width/blockSize
\* x height/blockSize blocks for exact multiples, one block for an image of
\* exactly one block.
C22_BlockPartition ==
    /\ (pc = "generic" /\ ret.result # "rejected") =>
          /\ VisitsEveryTile(loc.textureBlocks, 16)
          /\ VisitsEveryTile(loc.colorBlocks, 32)
    /\ (pc = "indian" /\ ret.result # "rejected") =>
          VisitsEveryTile(loc.textureBlocks, 32)

\* the part of C22 the code satisfies: the visited blocks are complete
\* tiles of the grid (so they are disjoint and inside the image), and the
\* only tiles left out are those that touch the right or the bottom edge
C22_InsideAndDisjoint ==
    (Ran /\ ret.result # "rejected") =>
        LET blockSize == IF pc = "generic" THEN 16 ELSE 32
        IN  /\ loc.textureBlocks.xs \subseteq Tiles(loc.width, blockSize)
            /\ loc.textureBlocks.ys \subseteq Tiles(loc.height, blockSize)
            /\ \A t \in Tiles(loc.width, blockSize) \ loc.textureBlocks.xs :
                  t + blockSize = loc.width
            /\ \A t \in Tiles(loc.height, blockSize) \ loc.textureBlocks.ys :
                  t + blockSize = loc.height

\* the sampled positions 1 <= x < width - 1 on and off the 8-pixel period,
\* and the averages of the horizontal differences taken there
BoundaryColumns == {x \in 1..(loc.width - 2) : x % 8 = 0}
InteriorColumns == {x \in 1..(loc.width - 2) : x % 8 # 0}
AvgBoundary == IF loc.height >= 3 /\ BoundaryColumns # {} THEN img.boundaryDiff ELSE 0
AvgInterior == IF loc.height >= 3 /\ InteriorColumns # {} THEN img.interiorDiff ELSE 0

\* C23: the compression score of analyzeCompressionArtifacts is strictly
\* below 1 whenever the average difference at the columns with x mod 8 = 0
\* differs from the average difference at the other sampled columns; an
\* image that steps only at the boundary columns (interior average 0) is
\* penalized, not given the score 1.
C23_BoundaryPenalized ==
    (pc = "generic" /\ ret.result # "rejected" /\ AvgBoundary # AvgInterior)
        => loc.scores.compressionScore < One

\* the part of C23 the code satisfies: with a positive interior average,
\* different averages give a score below 1
C23_PositiveInterior ==
    (pc = "generic" /\ ret.result # "rejected"
        /\ AvgInterior > 0 /\ AvgBoundary # AvgInterior)
        => loc.scores.compressionScore < One

-----------------------------------------------------------------------------
(* Properties of the verdicts                                              *)

\* the anomalies the specialized pipeline can raise, by what raises them
RaisedIndian ==
    {a \in {"edge", "texture", "security", "type"} :
        \/ a = "edge" /\ loc.edgeScore < 5000000
        \/ a = "texture" /\ loc.textureScore < 5000000
        \/ a = "security" /\ loc.securityScore < 3000000
                          /\ loc.docTypePattern.type # "other_govt_id"
        \/ a = "type" /\ loc.docTypePattern.confidence < 4000000}

\* C24: analyzeIndianDocument returns genuine iff the unrounded weighted
\* confidence is at least 0.75 and at most one anomaly was raised (edge <
\* 0.5, texture < 0.5, security < 0.3 for a type other than other_govt_id,
\* type confidence < 0.4); otherwise suspected_forgery, never pending.
C24_IndianVerdict ==
    (pc = "indian" /\ ret.result # "rejected") =>
        /\ Len(ret.anomalies) = Cardinality(RaisedIndian)
        /\ ret.result = "genuine"
              <=> (loc.confidenceScore >= 7500000 /\ Cardinality(RaisedIndian) <= 1)
        /\ ret.result \in {"genuine", "suspected_forgery"}

\* a confidence of 0.75 or more turned down by its two anomalies, edge and
\* texture
C24_Witness ==
    /\ Returned("indian")
    /\ loc.confidenceScore >= 7500000
    /\ RaisedIndian = {"edge", "texture"}
    /\ ret.result = "suspected_forgery"

\* C25 as claimed: on the gated path of analyzeDocument the reported
\* confidence 0.15 + 0.35 * raw is never greater than the raw weighted
\* confidence.
C25_GatedAtMostRaw ==
    (Returned("generic") /\ loc.stage = "gate")
        => ~Lt(loc.confidenceScore, ret.confidenceScore)

\* C25 as it holds: on the gated path the reported confidence is not
\* greater than the raw confidence whenever the raw confidence is at least
\* 3/13 (0.2308), and it is greater than the raw confidence below that.
C25_GatedAtMostRawAbove ==
    (Returned("generic") /\ loc.stage = "gate" /\ ~IsNaN(loc.confidenceScore)) =>
        /\ 13 * loc.confidenceScore >= 3 * One
              => ret.confidenceScore <= loc.confidenceScore
        /\ 13 * loc.confidenceScore < 3 * One
              => ret.confidenceScore > loc.confidenceScore

\* a gated record whose raw confidence lies between 0.2308 and 0.38
C25_Witness ==
    /\ Returned("generic") /\ loc.stage = "gate"
    /\ ~IsNaN(loc.confidenceScore)
    /\ 13 * loc.confidenceScore >= 3 * One
    /\ loc.confidenceScore < 3800000
    /\ ret.confidenceScore < loc.confidenceScore

\* the names of the six scores, and the values a score is raised to: each
\* threshold, the value a thousandth below it, and the ends of [0, 1]
ScoreNames == {"edgeScore", "textureScore", "compressionScore",
               "colorScore", "noiseScore", "alignmentScore"}
RaisedValues ==
    {0, One} \cup {t - d * Milli : t \in {4000000, 4500000, 5000000, 5500000,
                                          6000000, 6500000}, d \in 0..MaxDelta}

\* the score vectors that differ from s in one defined score, which is higher
RaisedFrom(s) ==
    UNION {{[s EXCEPT ![f] = v] : v \in {w \in RaisedValues : ~IsNaN(s[f]) /\ w > s[f]}} :
              f \in ScoreNames}

\* C26: raising one feature score of analyzeDocument with the other five
\* held fixed never lowers the reported confidenceScore, across the gate,
\* the warning adjustment and the threshold stage.
C26_ConfidenceMonotone ==
    Returned("generic") =>
        \A t \in RaisedFrom(loc.scores) :
            ~Lt(decisionOf(t).confidenceScore, ret.confidenceScore)

\* C27: raising one feature score of analyzeDocument with the other five
\* held fixed never turns result genuine into suspected_forgery.
C27_VerdictMonotone ==
    (Returned("generic") /\ ret.result = "genuine") =>
        \A t \in RaisedFrom(loc.scores) : decisionOf(t).result = "genuine"

\* C28: in a record of analyzeDocument, result is genuine iff the reported
\* two-decimal confidenceScore is at least 0.75; no record has result
\* suspected_forgery and a reported confidenceScore of 0.75 or more.
C28_RecordConsistent ==
    Returned("generic") =>
        (ret.result = "genuine" <=> Ge(ret.confidenceScore, 7500000))

\* C28 as it holds: result is genuine iff the record comes from the
\* threshold stage with an unrounded adjusted confidence of at least 0.75;
\* a genuine record reports 0.75 or more, while a suspected_forgery record
\* may report 0.75 (unrounded value in [0.745, 0.75)).
C28_UnroundedDecides ==
    Returned("generic") =>
        /\ ret.result = "genuine"
              <=> (loc.stage = "threshold" /\ Ge(loc.adjustedConfidence, 7500000))
        /\ ret.result = "genuine" => Ge(ret.confidenceScore, 7500000)

\* edge 0.45, texture 0.65, the rest 1.0: one warning, 0.7855 * 0.95 =
\* 0.7462, suspected_forgery reported with a confidence of 0.75
C28_Witness ==
    /\ Returned("generic") /\ loc.stage = "threshold"
    /\ loc.adjustedConfidence = 7462250
    /\ ret.result = "suspected_forgery"
    /\ ret.confidenceScore = 7500000

-----------------------------------------------------------------------------
(* C29: the counters of the admin monitor                                  *)

\* the filters that stand for a state of the analysis
StateFilters == {"genuine", "forgery", "pending"}

\* C29: for every set of stored documents genuineCount + forgeryCount +
\* pendingCount equals the number of documents, and every document matches
\* exactly one of the genuine / forgery / pending filters, a document whose
\* stored analysis has result 'pending' included.
C29_CountersPartition ==
    /\ genuineCount(documents) + forgeryCount(documents) + pendingCount(documents)
          = Len(documents)
    /\ \A k \in DOMAIN documents :
          Cardinality({f \in StateFilters : k \in filtered(documents, f)}) = 1

\* the part of C29 that holds of the stored documents: no document is
\* counted twice, the counters agree with the filters, and the only rows
\* left out are those whose stored result is 'pending'
C29_DisjointAndPendingLeftOut ==
    /\ \A k \in DOMAIN documents :
          /\ Cardinality({f \in StateFilters : k \in filtered(documents, f)}) <= 1
          /\ (\A f \in StateFilters : k \notin filtered(documents, f))
                <=> hasResult(documents[k], "pending")
    /\ genuineCount(documents) = Cardinality(filtered(documents, "genuine"))
    /\ forgeryCount(documents) = Cardinality(filtered(documents, "forgery"))
    /\ pendingCount(documents) = Cardinality(filtered(documents, "pending"))
    /\ filtered(documents, "all") = DOMAIN documents

-----------------------------------------------------------------------------
(* C30: liveness of the upload flow                                        *)

\* handleUpload has set both flags for upload u
FlagsSet(u) == uploads[u].uploading /\ uploads[u].analyzing

\* both flags of upload u are false again
FlagsReset(u) == ~uploads[u].uploading /\ ~uploads[u].analyzing

\* DocumentDB.create has answered for upload u
Created(u) == uploads[u].docId # NoDoc

\* the document of upload u is stored and carries an aiAnalysis
CarriesAnalysis(u) ==
    /\ uploads[u].docId \in DOMAIN documents
    /\ documents[uploads[u].docId].aiAnalysis # None

\* C30: once handleUpload has set uploading and analyzing for a selected
\* file, both flags are eventually false again on every path (analysis
\* success, analysis failure, creation failure, file-read failure), and the
\* document created for the upload eventually carries an aiAnalysis record.
C30_UploadLiveness ==
    \A u \in Uploads :
        /\ FlagsSet(u) ~> FlagsReset(u)
        /\ Created(u) ~> CarriesAnalysis(u)

\* the part of C30 that holds: once the reader has delivered the file the
\* flags are reset whatever the store and the analysis answer, and a
\* document whose update the store applied carries the analysis from then on
C30_ResetOnceRead ==
    \A u \in Uploads :
        /\ (uploads[u].pc = "creating") ~> FlagsReset(u)
        /\ uploads[u].updated ~> CarriesAnalysis(u)

====
